---------------------------- MODULE Spec2Model ----------------------------
(***************************************************************************)
(* Model of pages/10_Lipinski_game.py (the "Drug Designer Challenge") and  *)
(* of the formulas and the selection guide of the other pages.             *)
(*                                                                         *)
(*  - SpecAttach : attach_functional_group, run statement block by         *)
(*                 statement block on a heap of molecule objects           *)
(*  - SpecRules  : check_lipinski_compliance on parameter dictionaries     *)
(*  - Spec       : the game session, one script run (render) at a time     *)
(*  - SpecPK, SpecIonization, SpecBuffer, SpecHiguchi, SpecParticle :      *)
(*                 one evaluation of a page's formula on slider values     *)
(*  - SpecGuide  : one run of the excipient Selection Guide                *)
(*  - SpecSimulator : the session of the dissolution simulator, one run at *)
(*                 a time                                                  *)
(*  - SpecRisk   : one run of the interaction Risk Assessment              *)
(*                                                                         *)
(* Molecules are graphs: a sequence of atoms and a set of bonds.  SMILES   *)
(* texts are kept in written form (atoms as written, bracketed or not,     *)
(* with their written hydrogen counts), so that parsing (hydrogen removal, *)
(* implicit valence) and writing (bracketing) are real conversions.        *)
(*                                                                         *)
(* Library behaviour is modelled as far as the page depends on it:         *)
(*   - sanitization is the valence check (no kekulization, no charges);    *)
(*   - MolToSmiles writes the atoms in index order (no canonical ranking); *)
(*   - the descriptors use per-element masses and LogP contributions in    *)
(*     hundredths and the donor / acceptor patterns for N and O;           *)
(*   - display_molecule is kept as the text of the molecule it draws; the  *)
(*     2D/3D toggle changes nothing the game reads and is left out.        *)
(***************************************************************************)
EXTENDS Integers, Sequences, FiniteSets, TLC

VARIABLES
    \* ---- attach_functional_group run (SpecAttach)
    frame,              \* locals and heap of one call
    mol_before,         \* value of the argument object when the call began
    \* ---- check_lipinski_compliance run (SpecRules)
    params,             \* the params dictionary passed in
    verdict,            \* the (rules, compliance) pair returned, or NoneVal
    \* ---- game session (Spec): st.session_state and the render position
    score,
    current_molecule,
    game_mode,
    submitted,          \* "absent" until first assigned
    message,
    start_time,
    now,                \* time.time(), seconds
    pc,                 \* position of the running script
    shown,              \* what this render put on the page so far
    ev,                 \* the widget values this render has read so far
    \* ---- the formula pages: one evaluation of a page's formulas
    call,               \* the arguments (slider values), or NoneVal
    ret,                \* what the evaluation returned, or NoneVal
    \* ---- the Selection Guide of pages/9_Pharmaceutical_Excipients.py
    guide,              \* position, locals and output of one run
    \* ---- the Risk Assessment of pages/8_Drug_Drug_Interactions.py
    risk                \* position, locals and output of one run

attachVars == <<frame, mol_before>>
rulesVars == <<params, verdict>>
gameVars == <<score, current_molecule, game_mode, submitted, message,
              start_time, now, pc, shown, ev>>
pagesVars == <<call, ret, guide, risk>>
vars == <<frame, mol_before, params, verdict, score, current_molecule,
          game_mode, submitted, message, start_time, now, pc, shown, ev,
          call, ret, guide, risk>>

-----------------------------------------------------------------------------
(* Python None, and the "no index" value of the index locals.              *)
NoneVal == [none |-> TRUE]
NoIdx == 0 - 1

Max(a, b) == IF a >= b THEN a ELSE b

-----------------------------------------------------------------------------
(***************************************************************************)
(* Molecule objects (rdkit.Chem.Mol as the page uses it).                  *)
(*   atom : num (atomic number, 0 = dummy "*"), iso (isotope, 0 = none),   *)
(*          noImplicit, nH (hydrogens counted on the atom, not in graph)   *)
(*   bond : a (begin index), b (end index), order                          *)
(***************************************************************************)
Atom(num, iso, noImplicit, nH) ==
    [num |-> num, iso |-> iso, noImplicit |-> noImplicit, nH |-> nH]

Bond(a, b, order) == [a |-> a, b |-> b, order |-> order]

Mol(atoms, bonds) == [atoms |-> atoms, bonds |-> bonds]

GetNumAtoms(m) == Len(m.atoms)

(* Atom indices are the library's: 0 .. GetNumAtoms - 1.                   *)
Idxs(m) == 0 .. (Len(m.atoms) - 1)

GetAtomWithIdx(m, i) == m.atoms[i + 1]

BondsOf(m, i) == {bd \in m.bonds : bd.a = i \/ bd.b = i}

Other(bd, i) == IF bd.a = i THEN bd.b ELSE bd.a

NeighborIdxs(m, i) == {Other(bd, i) : bd \in BondsOf(m, i)}

Bonded(m, i, j) == \E bd \in m.bonds : {bd.a, bd.b} = {i, j}

(* Twice the valence contribution of a bond (aromatic counts 1.5).         *)
Order2(order) ==
    CASE order = "SINGLE" -> 2
      [] order = "AROMATIC" -> 3
      [] order = "DOUBLE" -> 4
      [] order = "TRIPLE" -> 6

RECURSIVE SumOrder2(_)
SumOrder2(bs) ==
    IF bs = {} THEN 0
    ELSE LET bd == CHOOSE x \in bs : TRUE
         IN Order2(bd.order) + SumOrder2(bs \ {bd})

(* Default (and largest allowed) valence of the elements in play.          *)
DefaultValence(num) ==
    CASE num = 1 -> 1
      [] num = 6 -> 4
      [] num = 7 -> 3
      [] num = 8 -> 2
      [] OTHER -> 0

(* Valence spent on graph bonds and counted hydrogens.                     *)
ExplicitValence(m, i) ==
    (SumOrder2(BondsOf(m, i)) \div 2) + GetAtomWithIdx(m, i).nH

GetNumImplicitHs(m, i) ==
    LET at == GetAtomWithIdx(m, i)
    IN IF at.noImplicit \/ at.num \in {0, 1} THEN 0
       ELSE Max(0, DefaultValence(at.num) - ExplicitValence(m, i))

HNeighbors(m, i) == {j \in NeighborIdxs(m, i) : GetAtomWithIdx(m, j).num = 1}

GetTotalNumHs(m, i) ==
    GetAtomWithIdx(m, i).nH + GetNumImplicitHs(m, i) + Cardinality(HNeighbors(m, i))

(* Chem.SanitizeMol's valence check: no atom above its allowed valence.    *)
SanitizeOk(m) ==
    \A i \in Idxs(m) :
        \/ GetAtomWithIdx(m, i).num = 0
        \/ ExplicitValence(m, i) <= DefaultValence(GetAtomWithIdx(m, i).num)

-----------------------------------------------------------------------------
(***************************************************************************)
(* Graph edits of EditableMol / RWMol.  Each returns the edited value; the *)
(* callers below decide which object it is stored in.                      *)
(***************************************************************************)

(* The index an atom has once the atoms in gone are deleted: every atom    *)
(* behind a deleted one moves down.                                        *)
ShiftedIdx(i, gone) == i - Cardinality({g \in gone : g < i})

RECURSIVE KeepAtoms(_, _, _)
KeepAtoms(atoms, gone, i) ==
    IF i >= Len(atoms) THEN <<>>
    ELSE (IF i \in gone THEN <<>> ELSE <<atoms[i + 1]>>)
         \o KeepAtoms(atoms, gone, i + 1)

RemoveAtoms(m, gone) ==
    Mol(KeepAtoms(m.atoms, gone, 0),
        {Bond(ShiftedIdx(bd.a, gone), ShiftedIdx(bd.b, gone), bd.order) :
            bd \in {x \in m.bonds : x.a \notin gone /\ x.b \notin gone}})

RemoveAtom(m, idx) == RemoveAtoms(m, {idx})

(* AddBond refuses an index that is no atom, a self-bond and a second bond *)
(* between the same pair.                                                  *)
AddBondOk(m, a, b) ==
    /\ a \in Idxs(m)
    /\ b \in Idxs(m)
    /\ a # b
    /\ ~Bonded(m, a, b)

AddBond(m, a, b, order) == Mol(m.atoms, m.bonds \cup {Bond(a, b, order)})

CombineMols(m1, m2) ==
    Mol(m1.atoms \o m2.atoms,
        m1.bonds \cup {Bond(bd.a + Len(m1.atoms), bd.b + Len(m1.atoms), bd.order) :
                          bd \in m2.bonds})

(* Chem.AddHs: atom by atom, in index order, the counted and the implicit  *)
(* hydrogens become graph atoms appended at the end; the atom then allows  *)
(* no implicit hydrogens.                                                  *)
RECURSIVE AppendHs(_, _, _)
AppendHs(m, host, k) ==
    IF k = 0 THEN m
    ELSE AppendHs(Mol(Append(m.atoms, Atom(1, 0, FALSE, 0)),
                      m.bonds \cup {Bond(host, Len(m.atoms), "SINGLE")}),
                  host, k - 1)

RECURSIVE AddHsFrom(_, _, _)
AddHsFrom(m, i, stopIdx) ==
    IF i >= stopIdx THEN m
    ELSE LET at == GetAtomWithIdx(m, i)
             k == at.nH + GetNumImplicitHs(m, i)
             grown == AppendHs(m, i, k)
             done == Mol([grown.atoms EXCEPT ![i + 1] = Atom(at.num, at.iso, TRUE, 0)],
                         grown.bonds)
         IN AddHsFrom(done, i + 1, stopIdx)

AddHs(m) == AddHsFrom(m, 0, Len(m.atoms))

-----------------------------------------------------------------------------
(***************************************************************************)
(* SMILES texts.  A text is unparseable (ok = FALSE) or a written graph:   *)
(* written atom = num, iso, bracket (written in [ ]), h (written H count). *)
(***************************************************************************)
WAtom(num, iso, bracket, h) == [num |-> num, iso |-> iso, bracket |-> bracket, h |-> h]

Text(atoms, bonds) == [ok |-> TRUE, atoms |-> atoms, bonds |-> bonds]

BadText(tag) == [ok |-> FALSE, atoms |-> <<>>, bonds |-> {}, tag |-> tag]

(* Hydrogens the parser folds into their neighbour: plain H, one bond, to  *)
(* a heavy atom.                                                           *)
RemovableHs(m) ==
    {i \in Idxs(m) :
        /\ GetAtomWithIdx(m, i).num = 1
        /\ GetAtomWithIdx(m, i).iso = 0
        /\ Cardinality(BondsOf(m, i)) = 1
        /\ \A j \in NeighborIdxs(m, i) : GetAtomWithIdx(m, j).num > 1}

RemoveHs(m) ==
    LET gone == RemovableHs(m)
        folded == [k \in 1..Len(m.atoms) |->
                     LET at == m.atoms[k]
                         n == Cardinality(NeighborIdxs(m, k - 1) \cap gone)
                     IN IF at.noImplicit
                        THEN Atom(at.num, at.iso, TRUE, at.nH + n)
                        ELSE at]
    IN RemoveAtoms(Mol(folded, m.bonds), gone)

(* Chem.MolFromSmiles: None for text that does not parse or does not       *)
(* sanitize, else the molecule with its hydrogens folded in.               *)
MolFromSmiles(t) ==
    IF ~t.ok THEN NoneVal
    ELSE LET raw == Mol([k \in 1..Len(t.atoms) |->
                            Atom(t.atoms[k].num, t.atoms[k].iso,
                                 t.atoms[k].bracket, t.atoms[k].h)],
                        t.bonds)
         IN IF SanitizeOk(raw) THEN RemoveHs(raw) ELSE NoneVal

(* Chem.MolToSmiles: graph hydrogens, isotopes and atoms short of their    *)
(* default valence are written in brackets with their hydrogen count.      *)
NeedsBracket(m, i) ==
    LET at == GetAtomWithIdx(m, i)
    IN \/ at.num \in {0, 1}
       \/ at.iso # 0
       \/ at.noImplicit /\ ExplicitValence(m, i) # DefaultValence(at.num)

MolToSmiles(m) ==
    Text([k \in 1..Len(m.atoms) |->
             IF NeedsBracket(m, k - 1)
             THEN WAtom(m.atoms[k].num, m.atoms[k].iso, TRUE,
                        m.atoms[k].nH + GetNumImplicitHs(m, k - 1))
             ELSE WAtom(m.atoms[k].num, 0, FALSE, 0)],
         m.bonds)

-----------------------------------------------------------------------------
(***************************************************************************)
(* attach_functional_group(mol, fg_smiles).                                *)
(*                                                                         *)
(* A frame holds the call's locals.  heap maps each local that names a     *)
(* molecule object to that object's value (NoneVal while unassigned): the  *)
(* library calls that return a new object fill a new entry, the calls that *)
(* edit their receiver rewrite the receiver's entry.                       *)
(*   edits       graph edits made so far (RemoveAtom, AddBond)             *)
(*   error_shown the except branch called st.error                         *)
(*   pc          next statement block, or "return" / "raise"               *)
(*   ret         the local returned ("None" for return None)               *)
(***************************************************************************)
ObjNames == {"mol", "fg", "mol_h", "emol", "mol_no_H", "combo", "emol_combo",
             "new_mol", "rw_mol", "final_mol"}

InitFrame(mol, fg_smiles) ==
    [pc |-> "parse",
     fg_smiles |-> fg_smiles,
     heap |-> [o \in ObjNames |-> IF o = "mol" THEN mol ELSE NoneVal],
     heavy_idx |-> NoIdx,
     hydrogen_idx |-> NoIdx,
     dummy_idx |-> NoIdx,
     n_atoms_main |-> NoIdx,
     new_dummy_idx |-> NoIdx,
     edits |-> 0,
     error_shown |-> FALSE,
     ret |-> ""]

Return(f, what) == [f EXCEPT !.pc = "return", !.ret = what]

Raise(f) == [f EXCEPT !.pc = "raise"]

(* Lines 38-40: fg = Chem.MolFromSmiles(fg_smiles); None -> return None.   *)
StepParse(f) ==
    LET fg == MolFromSmiles(f.fg_smiles)
        g == [f EXCEPT !.heap["fg"] = fg]
    IN IF fg = NoneVal THEN Return(g, "None") ELSE [g EXCEPT !.pc = "findH"]

(* Lines 48-55: the first atom, in index order, that is a hydrogen with a  *)
(* neighbour; its first neighbour.                                         *)
HydrogensWithNeighbor(m) ==
    {i \in Idxs(m) : GetAtomWithIdx(m, i).num = 1 /\ NeighborIdxs(m, i) # {}}

MinOf(S) == CHOOSE x \in S : \A y \in S : x <= y

FirstHydrogen(m) ==
    IF HydrogensWithNeighbor(m) = {} THEN NoIdx ELSE MinOf(HydrogensWithNeighbor(m))

FirstNeighbor(m, i) == MinOf(NeighborIdxs(m, i))

(* Variant: the "nothing found" return of lines 57-58 is missing.          *)
StepFindH_NoGuard(f) ==
    LET mol_h == AddHs(f.heap["mol"])
        h == FirstHydrogen(mol_h)
    IN [f EXCEPT !.heap["mol_h"] = mol_h,
                 !.hydrogen_idx = h,
                 !.heavy_idx = IF h = NoIdx THEN NoIdx ELSE FirstNeighbor(mol_h, h),
                 !.pc = "removeH"]

(* Variant: the hydrogens are added to the argument object itself.         *)
StepFindH_InPlace(f) ==
    LET mol_h == AddHs(f.heap["mol"])
        h == FirstHydrogen(mol_h)
        g == [f EXCEPT !.heap["mol_h"] = mol_h, !.heap["mol"] = mol_h]
    IN IF h = NoIdx
       THEN Return(g, "None")
       ELSE [g EXCEPT !.hydrogen_idx = h,
                      !.heavy_idx = FirstNeighbor(mol_h, h),
                      !.pc = "removeH"]

(* Lines 43-58: mol_h = Chem.AddHs(mol), a new object; the search; return  *)
(* None when it found nothing.                                             *)
StepFindH(f) ==
    LET mol_h == AddHs(f.heap["mol"])
        h == FirstHydrogen(mol_h)
        g == [f EXCEPT !.heap["mol_h"] = mol_h]
    IN IF h = NoIdx
       THEN Return(g, "None")
       ELSE [g EXCEPT !.hydrogen_idx = h,
                      !.heavy_idx = FirstNeighbor(mol_h, h),
                      !.pc = "removeH"]

(* Variant: the index is never adjusted.                                   *)
AdjustHeavyIdx_Never(hydrogen_idx, heavy_idx) == heavy_idx

(* Lines 65-66: the heavy atom's index once the hydrogen is gone.          *)
AdjustHeavyIdx(hydrogen_idx, heavy_idx) ==
    IF hydrogen_idx < heavy_idx THEN heavy_idx - 1 ELSE heavy_idx

(* Lines 60-66: emol = EditableMol(mol_h) is a copy; RemoveAtom edits the  *)
(* copy; GetMol() hands out a new molecule.                                *)
StepRemoveH(f) ==
    LET emol == RemoveAtom(f.heap["mol_h"], f.hydrogen_idx)
    IN [f EXCEPT !.heap["emol"] = emol,
                 !.heap["mol_no_H"] = emol,
                 !.edits = @ + 1,
                 !.heavy_idx = AdjustHeavyIdx(f.hydrogen_idx, f.heavy_idx),
                 !.pc = "combine"]

(* Lines 74-80: index of the first dummy atom of fg, 0 when there is none. *)
Dummies(m) == {i \in Idxs(m) : GetAtomWithIdx(m, i).num = 0}

FindDummy(fg) == IF Dummies(fg) = {} THEN 0 ELSE MinOf(Dummies(fg))

(* Lines 68-82.                                                            *)
StepCombine(f) ==
    LET combo == CombineMols(f.heap["mol_no_H"], f.heap["fg"])
        n == GetNumAtoms(f.heap["mol_no_H"])
        d == FindDummy(f.heap["fg"])
    IN [f EXCEPT !.heap["combo"] = combo,
                 !.heap["emol_combo"] = combo,
                 !.n_atoms_main = n,
                 !.dummy_idx = d,
                 !.new_dummy_idx = n + d,
                 !.pc = "addBond"]

(* Line 84: the two atoms the new bond joins.                              *)
BondEnds(f) == <<f.heavy_idx, f.new_dummy_idx>>

(* Lines 83-85: AddBond on the editable copy (raises on a bad index), then *)
(* new_mol = emol_combo.GetMol().                                          *)
StepAddBond(f) ==
    LET ends == BondEnds(f)
    IN IF ~AddBondOk(f.heap["emol_combo"], ends[1], ends[2])
       THEN Raise(f)
       ELSE LET bonded == AddBond(f.heap["emol_combo"], ends[1], ends[2], "SINGLE")
            IN [f EXCEPT !.heap["emol_combo"] = bonded,
                         !.heap["new_mol"] = bonded,
                         !.edits = @ + 1,
                         !.pc = "removeDummy"]

(* Variant: the atom removed is the fragment's first, not its dummy.       *)
StepRemoveDummy_FirstAtom(f) ==
    LET rw == f.heap["new_mol"]
    IN [f EXCEPT !.heap["rw_mol"] = RemoveAtom(rw, f.n_atoms_main),
                 !.heap["final_mol"] = RemoveAtom(rw, f.n_atoms_main),
                 !.edits = @ + 1,
                 !.pc = "sanitize"]

(* Lines 87-95: rw_mol = RWMol(new_mol) is a copy; the batch edit removes  *)
(* the atom at new_dummy_idx with its bonds; an exception is reported with *)
(* st.error and swallowed; final_mol = rw_mol.GetMol().                    *)
StepRemoveDummy(f) ==
    LET rw == f.heap["new_mol"]
    IN IF f.new_dummy_idx \in Idxs(rw)
       THEN [f EXCEPT !.heap["rw_mol"] = RemoveAtom(rw, f.new_dummy_idx),
                      !.heap["final_mol"] = RemoveAtom(rw, f.new_dummy_idx),
                      !.edits = @ + 1,
                      !.pc = "sanitize"]
       ELSE [f EXCEPT !.heap["rw_mol"] = rw,
                      !.heap["final_mol"] = rw,
                      !.error_shown = TRUE,
                      !.pc = "sanitize"]

(* Lines 96-97: Chem.SanitizeMol(final_mol) raises on a bad valence, else  *)
(* return final_mol.                                                       *)
StepSanitize(f) ==
    IF SanitizeOk(f.heap["final_mol"]) THEN Return(f, "final_mol") ELSE Raise(f)

Finished(f) == f.pc \in {"return", "raise"}

Step(f) ==
    CASE f.pc = "parse" -> StepParse(f)
      [] f.pc = "findH" -> StepFindH(f)
      [] f.pc = "removeH" -> StepRemoveH(f)
      [] f.pc = "combine" -> StepCombine(f)
      [] f.pc = "addBond" -> StepAddBond(f)
      [] f.pc = "removeDummy" -> StepRemoveDummy(f)
      [] f.pc = "sanitize" -> StepSanitize(f)

RECURSIVE RunFrame(_)
RunFrame(f) == IF Finished(f) THEN f ELSE RunFrame(Step(f))

(* The whole call: the finished frame.  Its outcome is                     *)
(*   "raise" | "None" | "mol" with the returned molecule in Returned.      *)
attach_functional_group(mol, fg_smiles) == RunFrame(InitFrame(mol, fg_smiles))

Raised(f) == f.pc = "raise"

ReturnedNone(f) == f.pc = "return" /\ f.ret = "None"

Succeeded(f) == f.pc = "return" /\ f.ret = "final_mol"

Returned(f) == f.heap["final_mol"]

-----------------------------------------------------------------------------
(***************************************************************************)
(* The SMILES texts in play.                                               *)
(***************************************************************************)
WC == WAtom(6, 0, FALSE, 0)
WN == WAtom(7, 0, FALSE, 0)
WO == WAtom(8, 0, FALSE, 0)
WH == WAtom(1, 0, TRUE, 0)
WD == WAtom(1, 2, TRUE, 0)
WStar == WAtom(0, 0, TRUE, 0)

(* Longest carbon chain among the base molecules tried.                    *)
MaxChain == 3

(* "C", "CC", "CCC", ...                                                   *)
Alkane(n) == Text([k \in 1..n |-> WC], {Bond(k - 1, k, "SINGLE") : k \in 1..(n - 1)})

Ethane == Alkane(2)
CarbonDioxide == Text(<<WO, WC, WO>>, {Bond(0, 1, "DOUBLE"), Bond(1, 2, "DOUBLE")})
Dihydrogen == Text(<<WH, WH>>, {Bond(0, 1, "SINGLE")})
LoneHydrogen == Text(<<WH>>, {})
DeuteroMethane == Text(<<WD, WC>>, {Bond(0, 1, "SINGLE")})
Methanol == Text(<<WC, WO>>, {Bond(0, 1, "SINGLE")})
EmptyText == Text(<<>>, {})
Garbage == BadText("not a SMILES")
(* "C(C)(C)(C)(C)C": parses as text, fails the valence check.              *)
FiveValentCarbon ==
    Text(<<WC, WC, WC, WC, WC, WC>>, {Bond(0, k, "SINGLE") : k \in 1..5})

(* Lines 227-233: functional_groups.                                       *)
functional_groups ==
    [Methyl |-> Text(<<WStar, WC>>, {Bond(0, 1, "SINGLE")}),
     Hydroxyl |-> Text(<<WStar, WO>>, {Bond(0, 1, "SINGLE")}),
     Amine |-> Text(<<WStar, WN>>, {Bond(0, 1, "SINGLE")}),
     Carboxyl |-> Text(<<WStar, WC, WO, WO>>,
                       {Bond(0, 1, "SINGLE"), Bond(1, 2, "DOUBLE"), Bond(1, 3, "SINGLE")}),
     Benzene |-> Text(<<WStar, WC, WC, WC, WC, WC, WC>>,
                      {Bond(0, 1, "SINGLE"), Bond(1, 2, "AROMATIC"), Bond(2, 3, "AROMATIC"),
                       Bond(3, 4, "AROMATIC"), Bond(4, 5, "AROMATIC"),
                       Bond(5, 6, "AROMATIC"), Bond(6, 1, "AROMATIC")})]

GroupNames == DOMAIN functional_groups

(* "C[*:1]": the dummy written last.  "C": no dummy at all.                *)
MethylDummyLast == Text(<<WC, WStar>>, {Bond(0, 1, "SINGLE")})
NoDummyFragment == Alkane(1)

-----------------------------------------------------------------------------
(***************************************************************************)
(* SpecAttach: one call of attach_functional_group on every pair of a      *)
(* parsed base molecule and a fragment text.                               *)
(***************************************************************************)
BaseTexts ==
    {Alkane(n) : n \in 1..MaxChain}
    \cup {CarbonDioxide, Dihydrogen, LoneHydrogen, DeuteroMethane, Methanol}

FragTexts ==
    {functional_groups[g] : g \in GroupNames}
    \cup {MethylDummyLast, NoDummyFragment, EmptyText, Garbage, FiveValentCarbon}

-----------------------------------------------------------------------------
(***************************************************************************)
(* LipinskiGame.calculate_lipinski_parameters / check_lipinski_compliance. *)
(* Weights and LogP are carried in hundredths (500.01 is 50001).           *)
(***************************************************************************)
Hundredths(x) == x * 100

(* Lines 150-153 and 155: the four limits and the number of rules needed.  *)
MW_LIMIT == 500
LOGP_LIMIT == 5
HBD_LIMIT == 5
HBA_LIMIT == 10
RULES_NEEDED == 3

Params(mw, logp, hbd, hba) == [mw |-> mw, logp |-> logp, hbd |-> hbd, hba |-> hba]

(* Variant: the weight limit is exclusive.                                 *)
WeightRule_Strict(p) == p.mw < Hundredths(MW_LIMIT)

(* Line 150.                                                               *)
WeightRule(p) == p.mw <= Hundredths(MW_LIMIT)

(* Lines 149-154: rules.                                                   *)
Rules(p) ==
    [mw |-> WeightRule(p),
     logp |-> p.logp <= Hundredths(LOGP_LIMIT),
     hbd |-> p.hbd <= HBD_LIMIT,
     hba |-> p.hba <= HBA_LIMIT]

(* sum(rules.values())                                                     *)
RulesMet(rules) == Cardinality({k \in DOMAIN rules : rules[k]})

(* Variant: every rule must hold.                                          *)
Compliance_AllFour(rules) == RulesMet(rules) > RULES_NEEDED

(* Line 155.                                                               *)
Compliance(rules) == RulesMet(rules) >= RULES_NEEDED

(* Lines 144-156: False for params None, else the pair (rules, compliance). *)
ReturnedFalse == [returned_false |-> TRUE]

check_lipinski_compliance(p) ==
    IF p = NoneVal THEN ReturnedFalse
    ELSE [rules |-> Rules(p), compliance |-> Compliance(Rules(p))]

(* Descriptors.ExactMolWt: atom masses in hundredths, hydrogens included.  *)
Mass(num, iso) ==
    CASE num = 1 /\ iso = 2 -> 201
      [] num = 1 -> 101
      [] num = 6 -> 1200
      [] num = 7 -> 1400
      [] num = 8 -> 1599
      [] OTHER -> 0

(* Descriptors.MolLogP: per-atom contributions in hundredths (the heavy    *)
(* atom's, and one per hydrogen by the element carrying it).               *)
LogPAtom(num) ==
    CASE num = 6 -> 14
      [] num = 7 -> 0 - 102
      [] num = 8 -> 0 - 29
      [] num = 1 -> 12
      [] OTHER -> 0

LogPHydrogenOn(num) ==
    CASE num = 6 -> 12
      [] num = 7 -> 21
      [] num = 8 -> 30
      [] OTHER -> 12

UncountedHs(m, i) == GetAtomWithIdx(m, i).nH + GetNumImplicitHs(m, i)

MassTerm(m, i) ==
    Mass(GetAtomWithIdx(m, i).num, GetAtomWithIdx(m, i).iso)
    + UncountedHs(m, i) * Mass(1, 0)

LogPTerm(m, i) ==
    LogPAtom(GetAtomWithIdx(m, i).num)
    + UncountedHs(m, i) * LogPHydrogenOn(GetAtomWithIdx(m, i).num)

RECURSIVE SumMass(_, _)
SumMass(m, i) ==
    IF i >= Len(m.atoms) THEN 0 ELSE MassTerm(m, i) + SumMass(m, i + 1)

RECURSIVE SumLogP(_, _)
SumLogP(m, i) ==
    IF i >= Len(m.atoms) THEN 0 ELSE LogPTerm(m, i) + SumLogP(m, i + 1)

TotalValence(m, i) == ExplicitValence(m, i) + GetNumImplicitHs(m, i)

(* A neighbour over a single bond that carries no double bond to N or O.   *)
PlainNeighbor(m, i) ==
    \E bd \in BondsOf(m, i) :
        /\ bd.order = "SINGLE"
        /\ GetAtomWithIdx(m, Other(bd, i)).num # 1
        /\ ~\E b2 \in BondsOf(m, Other(bd, i)) :
               /\ b2.order = "DOUBLE"
               /\ GetAtomWithIdx(m, Other(b2, Other(bd, i))).num \in {7, 8}

(* Descriptors.NumHDonors: N with a hydrogen, O with exactly one.          *)
IsDonor(m, i) ==
    \/ GetAtomWithIdx(m, i).num = 7 /\ GetTotalNumHs(m, i) >= 1 /\ TotalValence(m, i) = 3
    \/ GetAtomWithIdx(m, i).num = 8 /\ GetTotalNumHs(m, i) = 1

(* Descriptors.NumHAcceptors: two-valent O and three-valent N, bare or     *)
(* carrying hydrogens next to a plain neighbour.                           *)
IsAcceptor(m, i) ==
    \/ /\ GetAtomWithIdx(m, i).num = 8
       /\ TotalValence(m, i) = 2
       /\ \/ GetTotalNumHs(m, i) = 0
          \/ GetTotalNumHs(m, i) = 1 /\ PlainNeighbor(m, i)
    \/ /\ GetAtomWithIdx(m, i).num = 7
       /\ TotalValence(m, i) = 3
       /\ \/ GetTotalNumHs(m, i) = 0
          \/ GetTotalNumHs(m, i) \in {1, 2} /\ PlainNeighbor(m, i)

(* Lines 128-142.                                                          *)
calculate_lipinski_parameters(mol) ==
    IF mol = NoneVal THEN NoneVal
    ELSE Params(SumMass(mol, 0),
                SumLogP(mol, 0),
                Cardinality({i \in Idxs(mol) : IsDonor(mol, i)}),
                Cardinality({i \in Idxs(mol) : IsAcceptor(mol, i)}))

-----------------------------------------------------------------------------
(***************************************************************************)
(* The game session.  One script run (render) goes                         *)
(*   idle -> params -> editor -> text -> flush -> idle                     *)
(* and ends early at st.stop().  The widget values of a run (radio, button,*)
(* select box, text field) are chosen when the script reads them.          *)
(***************************************************************************)
Modes == {"tutorial", "design challenge", "fix-it mode", "time trial"}

(* Line 394.                                                               *)
TIME_LIMIT == 60

(* Bounds of the explored sessions.                                        *)
MaxScore == 2
MaxHeavy == 3
MaxTicks == 2
TickSeconds == 30

(* "NNNNNNNNNNN": eleven donors and eleven acceptors.                      *)
Undecazane ==
    Text([k \in 1..11 |-> WN], {Bond(k - 1, k, "SINGLE") : k \in 1..10})

(* "[OH2]": water as a bracket atom; it is written back as "O".            *)
BracketWater == Text(<<WAtom(8, 0, TRUE, 2)>>, {})

(* Texts the user types into the SMILES field.                             *)
TypedTexts == {Ethane, Methanol, CarbonDioxide, Undecazane, BracketWater, Garbage}

NothingShown ==
    [molecule |-> NoneVal, params |-> NoneVal, compliance |-> "none", info |-> "",
     score |-> NoIdx, stopped |-> FALSE]

NoEvent ==
    [switched |-> FALSE, clicked |-> FALSE, group |-> "", molecule |-> NoneVal,
     typed |-> NoneVal]

(* Lines 285-294: game_modes, as the new (game_mode, current_molecule,     *)
(* score, submitted, start_time).                                          *)
game_modes(new_mode, mode, cm, sc, sub, st, t) ==
    IF new_mode # mode
    THEN [game_mode |-> new_mode, current_molecule |-> Ethane, score |-> 0,
          submitted |-> "false",
          start_time |-> IF new_mode = "time trial" THEN t ELSE NoIdx]
    ELSE [game_mode |-> mode, current_molecule |-> cm, score |-> sc,
          submitted |-> sub, start_time |-> st]

(* Variant: the run goes on while remaining is exactly 0.                  *)
TimeIsUp_Strict(st, t) == TIME_LIMIT - (t - st) < 0

(* Lines 393-396: remaining <= 0.                                          *)
TimeIsUp(st, t) == TIME_LIMIT - (t - st) <= 0

(* Lines 378-398: main_game_loop down to the timer.                        *)
RenderTop ==
    /\ pc = "idle"
    /\ \E new_mode \in Modes :
        /\ score < MaxScore \/ new_mode # game_mode
        /\ LET s == game_modes(new_mode, game_mode, current_molecule, score,
                               submitted, start_time, now)
               st == IF s.game_mode = "time trial" /\ s.start_time = NoIdx
                     THEN now ELSE s.start_time
               stop == s.game_mode = "time trial" /\ TimeIsUp(st, now)
           IN /\ game_mode' = s.game_mode
              /\ current_molecule' = s.current_molecule
              /\ score' = s.score
              /\ submitted' = s.submitted
              /\ start_time' = st
              /\ shown' = [NothingShown EXCEPT !.stopped = stop]
              /\ pc' = IF stop THEN "idle" ELSE "params"
        /\ ev' = [NoEvent EXCEPT !.switched = (new_mode # game_mode)]
    /\ UNCHANGED <<message, now, attachVars, rulesVars, pagesVars>>

(* Variant: the submitted flag is not consulted.                           *)
ShouldScore_EveryRender(mode, sub) == mode # "tutorial"

(* Variant: the tutorial mode scores too.                                  *)
ShouldScore_AnyMode(mode, sub) == sub # "true"

(* Line 217: the gate on the score increment.                              *)
ShouldScore(mode, sub) == mode # "tutorial" /\ sub # "true"

(* Lines 400-407 with display_parameters (191-221): the molecule is drawn, *)
(* its parameters and verdict are written, and the score is counted.       *)
ParamsStep ==
    /\ pc = "params"
    /\ LET mol == MolFromSmiles(current_molecule)
           p == calculate_lipinski_parameters(mol)
           rules == check_lipinski_compliance(p)
       IN IF p = NoneVal
          THEN /\ shown' = [shown EXCEPT !.molecule = current_molecule]
               /\ UNCHANGED <<score, submitted>>
          ELSE /\ shown' = [shown EXCEPT !.molecule = current_molecule,
                                         !.params = p,
                                         !.compliance = IF rules.compliance
                                                        THEN "yes" ELSE "no"]
               /\ IF rules.compliance /\ ShouldScore(game_mode, submitted)
                  THEN score' = score + 1 /\ submitted' = "true"
                  ELSE UNCHANGED <<score, submitted>>
    /\ pc' = "editor"
    /\ UNCHANGED <<current_molecule, game_mode, message, start_time, now, ev,
                   attachVars, rulesVars, pagesVars>>

(* Lines 244-258: the 'Add Group' handler, as the new (current_molecule,   *)
(* message, submitted).                                                    *)
Unchanged(cm, sub, msg) == [current_molecule |-> cm, submitted |-> sub, message |-> msg]

(* Variant: a failed attachment still resets the submitted flag.           *)
OnAttachFailed_Resets(cm, sub, f) == Unchanged(cm, "false", "Invalid modification!")

OnAttachFailed(cm, sub, f) ==
    IF Raised(f) THEN Unchanged(cm, sub, "Error: exception text")
    ELSE Unchanged(cm, sub, "Invalid modification!")

OnAddGroup(cm, sub, selected_group) ==
    LET mol == MolFromSmiles(cm)
    IN IF mol = NoneVal
       THEN Unchanged(cm, sub, "Current molecule is invalid!")
       ELSE LET f == attach_functional_group(mol, functional_groups[selected_group])
            IN IF Succeeded(f)
               THEN [current_molecule |-> MolToSmiles(Returned(f)),
                     submitted |-> "false",
                     message |-> "Group added successfully!"]
               ELSE OnAttachFailed(cm, sub, f)

(* The click is explored while the parsed molecule is small.               *)
Clickable(cm) ==
    MolFromSmiles(cm) = NoneVal \/ GetNumAtoms(MolFromSmiles(cm)) <= MaxHeavy

ButtonStep ==
    /\ pc = "editor"
    /\ \E clicked \in BOOLEAN, selected_group \in GroupNames :
        /\ clicked => Clickable(current_molecule)
        /\ ~clicked => selected_group = "Methyl"
        /\ IF clicked
           THEN LET r == OnAddGroup(current_molecule, submitted, selected_group)
                IN /\ current_molecule' = r.current_molecule
                   /\ submitted' = r.submitted
                   /\ message' = r.message
           ELSE UNCHANGED <<current_molecule, submitted, message>>
        /\ ev' = [ev EXCEPT !.clicked = clicked, !.group = selected_group,
                             !.molecule = current_molecule]
    /\ pc' = "text"
    /\ UNCHANGED <<score, game_mode, start_time, now, shown, attachVars, rulesVars, pagesVars>>

(* Variant: the canonical text of the parsed molecule is stored.           *)
OnSmilesInput_Canonical(cm, sub, msg, smiles_input) ==
    IF smiles_input # cm
    THEN IF MolFromSmiles(smiles_input) # NoneVal
         THEN [current_molecule |-> MolToSmiles(MolFromSmiles(smiles_input)),
               submitted |-> "false",
               message |-> "SMILES updated successfully!"]
         ELSE Unchanged(cm, sub, "Invalid SMILES!")
    ELSE Unchanged(cm, sub, msg)

(* Lines 265-272: the SMILES field, as the new (current_molecule, message, *)
(* submitted).                                                             *)
OnSmilesInput(cm, sub, msg, smiles_input) ==
    IF smiles_input # cm
    THEN IF MolFromSmiles(smiles_input) # NoneVal
         THEN [current_molecule |-> smiles_input,
               submitted |-> "false",
               message |-> "SMILES updated successfully!"]
         ELSE Unchanged(cm, sub, "Invalid SMILES!")
    ELSE Unchanged(cm, sub, msg)

(* The field returns the current molecule (untouched) or a typed text; it  *)
(* is left free in every run, which includes every value the widget can    *)
(* hold.                                                                   *)
TextStep ==
    /\ pc = "text"
    /\ \E smiles_input \in TypedTexts \cup {current_molecule} :
        LET r == OnSmilesInput(current_molecule, submitted, message, smiles_input)
        IN /\ current_molecule' = r.current_molecule
           /\ submitted' = r.submitted
           /\ message' = r.message
           /\ ev' = [ev EXCEPT !.typed = smiles_input]
    /\ pc' = "flush"
    /\ UNCHANGED <<score, game_mode, start_time, now, shown, attachVars, rulesVars, pagesVars>>

(* Lines 274-276 and 413: st.info(message), message cleared; the score in  *)
(* the sidebar.                                                            *)
FlushStep ==
    /\ pc = "flush"
    /\ shown' = [shown EXCEPT !.info = message, !.score = score]
    /\ message' = ""
    /\ ev' = NoEvent
    /\ pc' = "idle"
    /\ UNCHANGED <<score, current_molecule, game_mode, submitted, start_time, now,
                   attachVars, rulesVars, pagesVars>>

(* time.time() moves on between runs.                                      *)
Tick ==
    /\ pc = "idle"
    /\ now + TickSeconds <= MaxTicks * TickSeconds
    /\ now' = now + TickSeconds
    /\ UNCHANGED <<score, current_molecule, game_mode, submitted, message,
                   start_time, pc, shown, ev, attachVars, rulesVars, pagesVars>>

(* Lines 113-126: initialize_session_state on the first run.               *)
GameInit ==
    /\ score = 0
    /\ current_molecule = Ethane
    /\ game_mode = "tutorial"
    /\ submitted = "absent"
    /\ message = ""
    /\ start_time = NoIdx
    /\ now = 0
    /\ pc = "idle"
    /\ shown = NothingShown
    /\ ev = NoEvent

AttachIdle ==
    /\ frame = NoneVal
    /\ mol_before = NoneVal

RulesIdle ==
    /\ params = NoneVal
    /\ verdict = NoneVal

FormulasIdle ==
    /\ call = NoneVal
    /\ ret = NoneVal

GuideIdle == guide = NoneVal

RiskIdle == risk = NoneVal

PagesIdle == FormulasIdle /\ GuideIdle /\ RiskIdle

Init == GameInit /\ AttachIdle /\ RulesIdle /\ PagesIdle

Next == RenderTop \/ ParamsStep \/ ButtonStep \/ TextStep \/ FlushStep \/ Tick

Spec == Init /\ [][Next]_vars

-----------------------------------------------------------------------------
(***************************************************************************)
(* SpecAttach: the call, one statement block per step.                     *)
(***************************************************************************)
AttachInit ==
    /\ \E t \in BaseTexts, fg_smiles \in FragTexts :
        /\ mol_before = MolFromSmiles(t)
        /\ frame = InitFrame(MolFromSmiles(t), fg_smiles)
    /\ GameInit
    /\ RulesIdle
    /\ PagesIdle

DoParse ==
    /\ frame # NoneVal
    /\ frame.pc = "parse"
    /\ frame' = StepParse(frame)
    /\ UNCHANGED <<mol_before, rulesVars, gameVars, pagesVars>>

DoFindH ==
    /\ frame # NoneVal
    /\ frame.pc = "findH"
    /\ frame' = StepFindH(frame)
    /\ UNCHANGED <<mol_before, rulesVars, gameVars, pagesVars>>

DoRemoveH ==
    /\ frame # NoneVal
    /\ frame.pc = "removeH"
    /\ frame' = StepRemoveH(frame)
    /\ UNCHANGED <<mol_before, rulesVars, gameVars, pagesVars>>

DoCombine ==
    /\ frame # NoneVal
    /\ frame.pc = "combine"
    /\ frame' = StepCombine(frame)
    /\ UNCHANGED <<mol_before, rulesVars, gameVars, pagesVars>>

DoAddBond ==
    /\ frame # NoneVal
    /\ frame.pc = "addBond"
    /\ frame' = StepAddBond(frame)
    /\ UNCHANGED <<mol_before, rulesVars, gameVars, pagesVars>>

DoRemoveDummy ==
    /\ frame # NoneVal
    /\ frame.pc = "removeDummy"
    /\ frame' = StepRemoveDummy(frame)
    /\ UNCHANGED <<mol_before, rulesVars, gameVars, pagesVars>>

DoSanitize ==
    /\ frame # NoneVal
    /\ frame.pc = "sanitize"
    /\ frame' = StepSanitize(frame)
    /\ UNCHANGED <<mol_before, rulesVars, gameVars, pagesVars>>

AttachNext ==
    DoParse \/ DoFindH \/ DoRemoveH \/ DoCombine \/ DoAddBond \/ DoRemoveDummy
    \/ DoSanitize

SpecAttach == AttachInit /\ [][AttachNext]_vars

-----------------------------------------------------------------------------
(***************************************************************************)
(* SpecRules: check_lipinski_compliance on parameter values around the     *)
(* four limits, and on None.                                               *)
(***************************************************************************)
Spread == 1

Around(limit) == (limit - Spread) .. (limit + Spread)

ParamInputs ==
    {Params(mw, logp, hbd, hba) :
        mw \in Around(Hundredths(MW_LIMIT)), logp \in Around(Hundredths(LOGP_LIMIT)),
        hbd \in Around(HBD_LIMIT), hba \in Around(HBA_LIMIT)}
    \cup {NoneVal}

RulesInit ==
    /\ params \in ParamInputs
    /\ verdict = NoneVal
    /\ GameInit
    /\ AttachIdle
    /\ PagesIdle

Check ==
    /\ verdict = NoneVal
    /\ verdict' = check_lipinski_compliance(params)
    /\ UNCHANGED <<params, attachVars, gameVars, pagesVars>>

RulesNext == Check

SpecRules == RulesInit /\ [][RulesNext]_vars

-----------------------------------------------------------------------------
(***************************************************************************)
(* The formula pages.  Python and NumPy floats are kept as exact fractions *)
(* n/d in lowest terms (d > 0).  np.exp and 10** are evaluated where they  *)
(* are exact in fractions: times are counted in units of ln 2 hours and pH *)
(* in units of log10 2, so that both are powers of two; np.sqrt is rounded *)
(* down to a multiple of 1/SqrtScale.                                      *)
(***************************************************************************)
Abs(x) == IF x < 0 THEN 0 - x ELSE x

RECURSIVE GCD(_, _)
GCD(a, b) == IF b = 0 THEN a ELSE GCD(b, a % b)

Frac(n, d) ==
    LET g == GCD(Abs(n), Abs(d))
        sgn == IF d < 0 THEN 0 - 1 ELSE 1
    IN [n |-> sgn * (n \div g), d |-> sgn * (d \div g)]

FromInt(i) == [n |-> i, d |-> 1]

FNeg(x) == [n |-> 0 - x.n, d |-> x.d]

(* x * y, the common factors taken out before the products are formed.     *)
FMul(x, y) ==
    LET g1 == GCD(Abs(x.n), y.d)
        g2 == GCD(Abs(y.n), x.d)
    IN Frac((x.n \div g1) * (y.n \div g2), (x.d \div g2) * (y.d \div g1))

FAdd(x, y) ==
    LET g == GCD(x.d, y.d)
    IN Frac(x.n * (y.d \div g) + y.n * (x.d \div g), (x.d \div g) * y.d)

FSub(x, y) == FAdd(x, FNeg(y))

(* x / y for y # 0.                                                        *)
FDiv(x, y) ==
    FMul(x, IF y.n > 0 THEN [n |-> y.d, d |-> y.n]
            ELSE [n |-> 0 - y.d, d |-> 0 - y.n])

(* x < y, by cross products with the common factors taken out.            *)
FLess(x, y) ==
    LET g == GCD(x.d, y.d)
        c == GCD(Abs(x.n), Abs(y.n))
        gn == IF c = 0 THEN 1 ELSE c
    IN (x.n \div gn) * (y.d \div g) < (y.n \div gn) * (x.d \div g)

FLeq(x, y) == x = y \/ FLess(x, y)

FMin(x, y) == IF FLess(y, x) THEN y ELSE x

(* Python's float division raises on a zero divisor; the exception leaves  *)
(* the function and the page run.                                          *)
ZeroDivisionError == [error |-> "ZeroDivisionError"]

PyDiv(x, y) == IF y.n = 0 THEN ZeroDivisionError ELSE FDiv(x, y)

(* 2 ** k for an integer k.                                                *)
Pow2(k) == IF k >= 0 THEN FromInt(2 ^ k) ELSE Frac(1, 2 ^ (0 - k))

(* np.exp(x), x a whole number of ln 2.                                    *)
NpExp(x) == Pow2(x.n)

(* 10 ** x, x a whole number of log10 2.                                   *)
Pow10(x) == Pow2(x.n)

-----------------------------------------------------------------------------
(***************************************************************************)
(* pages/4_Pharmacokinetic_Modeling.py, Interactive Models, one            *)
(* compartment: the four sliders, the time points and the two curves.      *)
(***************************************************************************)
MaxRate == 5
MaxTime == 3

(* Slider positions: dose 100..1000 by 50, volume 10..100 by 5, both rate  *)
(* constants 0.1..2.0 by 0.1 (in tenths).                                  *)
DoseValues == {100, 500, 1000}
VolumeValues == {10, 50, 100}
RateTenths == 1..MaxRate

Rate(tenths) == Frac(tenths, 10)

(* The time points, in units of ln 2 hours: 0, 10, 20, ... (within the 24  *)
(* hours of np.linspace(0, 24, 100)).                                      *)
TimePoints == [i \in 1..(MaxTime + 1) |-> FromInt(10 * (i - 1))]

(* Variant: the exponent without its minus sign.                           *)
one_compartment_iv_bolus_Growth(t, D, V, k) ==
    [i \in DOMAIN t |-> FMul(FDiv(D, V), NpExp(FMul(k, t[i])))]

(* Lines 8-10: (D/V) * np.exp(-k*t), t an array.                           *)
one_compartment_iv_bolus(t, D, V, k) ==
    [i \in DOMAIN t |-> FMul(FDiv(D, V), NpExp(FNeg(FMul(k, t[i]))))]

(* Variant: equal rate constants are special-cased (the limit of the       *)
(* formula, F*D*ka*t*exp(-ka*t)/V).                                        *)
one_compartment_oral_Guarded(t, D, V, ka, ke, F) ==
    IF ka = ke
    THEN [i \in DOMAIN t |->
            FMul(FDiv(FMul(FMul(FMul(F, D), ka), t[i]), V),
                 NpExp(FNeg(FMul(ka, t[i]))))]
    ELSE [i \in DOMAIN t |->
            FMul(FDiv(FMul(FMul(F, D), ka), FMul(V, FSub(ka, ke))),
                 FSub(NpExp(FNeg(FMul(ke, t[i]))), NpExp(FNeg(FMul(ka, t[i])))))]

(* Lines 22-24: (F*D*ka)/(V*(ka-ke)) * (np.exp(-ke*t) - np.exp(-ka*t)).    *)
(* The quotient is a division of Python floats, formed before the array    *)
(* enters.                                                                 *)
one_compartment_oral(t, D, V, ka, ke, F) ==
    LET q == PyDiv(FMul(FMul(F, D), ka), FMul(V, FSub(ka, ke)))
    IN IF q = ZeroDivisionError THEN ZeroDivisionError
       ELSE [i \in DOMAIN t |->
               FMul(q, FSub(NpExp(FNeg(FMul(ke, t[i]))),
                            NpExp(FNeg(FMul(ka, t[i])))))]

(* Lines 100-103: what the four sliders can return.                        *)
OneCompartmentSliders ==
    [dose : DoseValues, volume : VolumeValues, k_elim : RateTenths, ka : RateTenths]

(* Lines 105-113: the time points, the two curves and the chart.           *)
OneCompartmentRun ==
    /\ call \in OneCompartmentSliders
    /\ ret = NoneVal
    /\ LET t == TimePoints
           c_iv == one_compartment_iv_bolus(t, FromInt(call.dose),
                       FromInt(call.volume), Rate(call.k_elim))
           c_oral == one_compartment_oral(t, FromInt(call.dose),
                       FromInt(call.volume), Rate(call.ka), Rate(call.k_elim),
                       FromInt(1))
       IN ret' = [c_iv |-> c_iv, c_oral |-> c_oral,
                  chart |-> c_oral # ZeroDivisionError]
    /\ UNCHANGED <<call, guide, risk, attachVars, rulesVars, gameVars>>

PKInit ==
    /\ call \in OneCompartmentSliders
    /\ ret = NoneVal
    /\ GuideIdle
    /\ RiskIdle
    /\ GameInit
    /\ AttachIdle
    /\ RulesIdle

PKNext == OneCompartmentRun

SpecPK == PKInit /\ [][PKNext]_vars

-----------------------------------------------------------------------------
(***************************************************************************)
(* pages/2_ PH_Effects_on_Drug_Ionization.py, Interactive Calculator.      *)
(* pH and pKa are counted in steps of log10 2 (0.30103).                   *)
(***************************************************************************)
MaxPhStep == 10
MinPKaStep == 4

(* Lines 70-74: drug type, pKa slider (from 1.0) and pH slider (from 0.0). *)
CalculatorWidgets ==
    [pH : 0..MaxPhStep, pKa : MinPKaStep..MaxPhStep, is_acid : BOOLEAN]

(* Variant: the ratio of ionized to unionized drug instead of the ionized  *)
(* fraction.                                                               *)
calculate_ionization_Ratio(pH, pKa, is_acid) ==
    IF is_acid THEN Pow10(FSub(pH, pKa)) ELSE Pow10(FSub(pKa, pH))

(* Lines 7-13.                                                             *)
calculate_ionization(pH, pKa, is_acid) ==
    IF is_acid
    THEN FDiv(FromInt(1), FAdd(FromInt(1), Pow10(FSub(pKa, pH))))
    ELSE FDiv(FromInt(1), FAdd(FromInt(1), Pow10(FSub(pH, pKa))))

(* Lines 76-77.                                                            *)
CalculatorRun ==
    /\ call \in CalculatorWidgets
    /\ ret = NoneVal
    /\ ret' = calculate_ionization(FromInt(call.pH), FromInt(call.pKa),
                                   call.is_acid)
    /\ UNCHANGED <<call, guide, risk, attachVars, rulesVars, gameVars>>

IonizationInit ==
    /\ call \in CalculatorWidgets
    /\ ret = NoneVal
    /\ GuideIdle
    /\ RiskIdle
    /\ GameInit
    /\ AttachIdle
    /\ RulesIdle

IonizationNext == CalculatorRun

SpecIonization == IonizationInit /\ [][IonizationNext]_vars

-----------------------------------------------------------------------------
(***************************************************************************)
(* pages/7_Physical_Pharmacy.py, Buffer Systems.  pKa and pH are counted   *)
(* in steps of log10 2; the pH runs over a window around the pKa.          *)
(***************************************************************************)
MaxPKaStep == 3
PhWindow == 4

(* Line 167: buffer concentration 0.01 .. 0.5 M, in hundredths.            *)
ConcHundredths == {1, 10, 50}

(* Lines 166-170: the two sliders and a point of ph_range.                 *)
BufferInputs ==
    {[pka |-> m, buffer_conc |-> c, ph |-> j] :
        m \in 1..MaxPKaStep, c \in ConcHundredths,
        j \in (0 - PhWindow)..(MaxPKaStep + PhWindow)}

BufferPoints == {b \in BufferInputs : Abs(b.ph - b.pka) <= PhWindow}

(* Line 21: the literal 2.303.                                             *)
LN10 == Frac(2303, 1000)

(* Variant: the denominator without its square.                            *)
calculate_buffer_capacity_Unsquared(ka, buffer_conc, ph) ==
    LET h == Pow10(FNeg(ph))
    IN FDiv(FMul(FMul(FMul(LN10, ka), h), buffer_conc), FAdd(ka, h))

(* Lines 18-21.                                                            *)
calculate_buffer_capacity(ka, buffer_conc, ph) ==
    LET h == Pow10(FNeg(ph))
    IN FDiv(FMul(FMul(FMul(LN10, ka), h), buffer_conc),
            FMul(FAdd(ka, h), FAdd(ka, h)))

(* Line 171: calculate_buffer_capacity(10**-pka, buffer_conc, ph).         *)
BufferCapacityAt(pka, conc, ph) ==
    calculate_buffer_capacity(Pow10(FNeg(FromInt(pka))), Frac(conc, 100),
                              FromInt(ph))

BufferRun ==
    /\ call \in BufferPoints
    /\ ret = NoneVal
    /\ ret' = BufferCapacityAt(call.pka, call.buffer_conc, call.ph)
    /\ UNCHANGED <<call, guide, risk, attachVars, rulesVars, gameVars>>

BufferInit ==
    /\ call \in BufferPoints
    /\ ret = NoneVal
    /\ GuideIdle
    /\ RiskIdle
    /\ GameInit
    /\ AttachIdle
    /\ RulesIdle

BufferNext == BufferRun

SpecBuffer == BufferInit /\ [][BufferNext]_vars

-----------------------------------------------------------------------------
(***************************************************************************)
(* pages/6_Drug_Diffusion_and_Release_Mechanisms.py, Release Systems       *)
(* Comparison: the Higuchi curve over the time points.                     *)
(***************************************************************************)
SqrtScale == 1000
MaxHours == 6

(* The largest r with r * r <= x, found between lo and hi.                 *)
RECURSIVE ISqrtBetween(_, _, _)
ISqrtBetween(x, lo, hi) ==
    IF hi - lo <= 1 THEN lo
    ELSE LET mid == (lo + hi) \div 2
         IN IF mid * mid <= x THEN ISqrtBetween(x, mid, hi)
            ELSE ISqrtBetween(x, lo, mid)

ISqrt(x) == ISqrtBetween(x, 0, (IF x < 46340 THEN x ELSE 46340) + 1)

(* np.sqrt(x) for x >= 0, rounded down to a multiple of 1/SqrtScale.       *)
NpSqrt(x) == Frac(ISqrt((x.n * SqrtScale * SqrtScale) \div x.d), SqrtScale)

(* Line 152: time points of the 24 hours, here the whole hours.            *)
ReleaseTimePoints == [i \in 1..(MaxHours + 1) |-> FromInt(i - 1)]

(* Variant: the amount still in the matrix, A minus the amount released.   *)
higuchi_release_Remaining(t, D, Cs, A, h) ==
    [i \in DOMAIN t |->
        FSub(A, FMul(A, NpSqrt(FDiv(FMul(FMul(FMul(FromInt(2), Cs), D), t[i]), h))))]

(* Lines 28-30: A * np.sqrt((2*Cs*D*t)/h), t an array.                     *)
higuchi_release(t, D, Cs, A, h) ==
    [i \in DOMAIN t |->
        FMul(A, NpSqrt(FDiv(FMul(FMul(FMul(FromInt(2), Cs), D), t[i]), h)))]

(* Line 159 calls it with D = 1e-6, Cs = 1.0, A = 1.0, h = 1e-3; the       *)
(* function is evaluated for these and other positive parameters.          *)
HiguchiInputs ==
    [D : {Frac(1, 1000000), Frac(1, 100000), Frac(1, 10000)},
     Cs : {Frac(1, 2), FromInt(1), FromInt(2)},
     A : {Frac(1, 2), FromInt(1), FromInt(2)},
     h : {Frac(1, 1000), Frac(1, 100), Frac(1, 10)}]

ReleaseRun ==
    /\ call \in HiguchiInputs
    /\ ret = NoneVal
    /\ ret' = higuchi_release(ReleaseTimePoints, call.D, call.Cs, call.A, call.h)
    /\ UNCHANGED <<call, guide, risk, attachVars, rulesVars, gameVars>>

HiguchiInit ==
    /\ call \in HiguchiInputs
    /\ ret = NoneVal
    /\ GuideIdle
    /\ RiskIdle
    /\ GameInit
    /\ AttachIdle
    /\ RulesIdle

HiguchiNext == ReleaseRun

SpecHiguchi == HiguchiInit /\ [][HiguchiNext]_vars

-----------------------------------------------------------------------------
(***************************************************************************)
(* pages/9_Pharmaceutical_Excipients.py, Selection Guide: one run of the   *)
(* page, statement block by statement block.  Each select box returns its  *)
(* value when the script reads it.                                         *)
(***************************************************************************)
DosageForms == {"Tablet", "Capsule"}
ManufacturingMethods == {"Direct Compression", "Wet Granulation"}
Solubilities == {"Highly Soluble", "Poorly Soluble"}
Stabilities == {"Moisture Sensitive", "Heat Sensitive", "Stable"}

(* A st.write block that starts with '**Recommended Excipients:**', named  *)
(* by its first line.                                                      *)
Recommended(first) == [text |-> "Recommended Excipients", first |-> first]

Subheader(title) == [text |-> "subheader", first |-> title]

(* Lines 234-242: the page down to 'Specify Requirements'.                 *)
GuideStart ==
    [pc |-> "dosage_form", dosage_form |-> NoneVal,
     manufacturing_method |-> NoneVal, drug_solubility |-> NoneVal,
     drug_stability |-> NoneVal,
     written |-> <<Subheader("Specify Requirements")>>]

(* Lines 259-416: the blocks the nested conditions write.                  *)
Recommendations(dosage_form, manufacturing_method, drug_solubility, drug_stability) ==
    IF dosage_form = "Tablet"
    THEN IF manufacturing_method = "Direct Compression"
         THEN IF drug_solubility = "Highly Soluble"
              THEN IF drug_stability = "Moisture Sensitive"
                   THEN <<Recommended("Filler: Microcrystalline Cellulose (low moisture grade) (60-80%)")>>
                   ELSE IF drug_stability = "Heat Sensitive"
                        THEN <<Recommended("Filler: Lactose Monohydrate (60-80%)")>>
                        ELSE <<Recommended("Filler: Microcrystalline Cellulose (40%) + Lactose (40%)")>>
              ELSE IF drug_stability = "Moisture Sensitive"
                   THEN <<Recommended("Filler: Microcrystalline Cellulose (silicified) (60-70%)")>>
                   ELSE <<Recommended("Filler: Microcrystalline Cellulose (50%) + Pregelatinized Starch (20%)")>>
         ELSE IF drug_solubility = "Highly Soluble"
              THEN IF drug_stability = "Moisture Sensitive"
                   THEN <<Recommended("Filler: Microcrystalline Cellulose (50%) + DCP (20%)")>>
                   ELSE <<Recommended("Filler: Lactose Monohydrate (60%)")>>
              ELSE <<>>
    ELSE IF drug_solubility = "Highly Soluble"
         THEN IF drug_stability = "Moisture Sensitive"
              THEN <<Recommended("Filler: Microcrystalline Cellulose (70-85%)")>>
              ELSE <<Recommended("Filler: Lactose Monohydrate (70-85%)")>>
         ELSE IF drug_stability = "Moisture Sensitive"
              THEN <<Recommended("Filler: Microcrystalline Cellulose (60%)")>>
              ELSE <<Recommended("Filler: Microcrystalline Cellulose (50%) + Lactose (20%)")>>

GuideAt(p) == guide # NoneVal /\ guide.pc = p

(* Line 246.                                                               *)
ReadDosageForm ==
    /\ GuideAt("dosage_form")
    /\ \E v \in DosageForms :
        guide' = [guide EXCEPT !.dosage_form = v, !.pc = "manufacturing_method"]
    /\ UNCHANGED <<call, ret, risk, attachVars, rulesVars, gameVars>>

(* Lines 247-248.                                                          *)
ReadManufacturingMethod ==
    /\ GuideAt("manufacturing_method")
    /\ \E v \in ManufacturingMethods :
        guide' = [guide EXCEPT !.manufacturing_method = v, !.pc = "drug_solubility"]
    /\ UNCHANGED <<call, ret, risk, attachVars, rulesVars, gameVars>>

(* Lines 251-252.                                                          *)
ReadDrugSolubility ==
    /\ GuideAt("drug_solubility")
    /\ \E v \in Solubilities :
        guide' = [guide EXCEPT !.drug_solubility = v, !.pc = "drug_stability"]
    /\ UNCHANGED <<call, ret, risk, attachVars, rulesVars, gameVars>>

(* Lines 253-254.                                                          *)
ReadDrugStability ==
    /\ GuideAt("drug_stability")
    /\ \E v \in Stabilities :
        guide' = [guide EXCEPT !.drug_stability = v, !.pc = "header"]
    /\ UNCHANGED <<call, ret, risk, attachVars, rulesVars, gameVars>>

(* Line 257.                                                               *)
WriteRecommendationsHeader ==
    /\ GuideAt("header")
    /\ guide' = [guide EXCEPT
                    !.written = Append(@, Subheader("Recommendations")),
                    !.pc = "recommend"]
    /\ UNCHANGED <<call, ret, risk, attachVars, rulesVars, gameVars>>

(* Lines 259-416.                                                          *)
WriteRecommendations ==
    /\ GuideAt("recommend")
    /\ guide' = [guide EXCEPT
                    !.written = @ \o Recommendations(guide.dosage_form,
                                        guide.manufacturing_method,
                                        guide.drug_solubility,
                                        guide.drug_stability),
                    !.pc = "considerations"]
    /\ UNCHANGED <<call, ret, risk, attachVars, rulesVars, gameVars>>

(* Lines 418-427.                                                          *)
WriteConsiderations ==
    /\ GuideAt("considerations")
    /\ guide' = [guide EXCEPT
                    !.written = Append(@, Subheader("Additional Considerations")),
                    !.pc = "done"]
    /\ UNCHANGED <<call, ret, risk, attachVars, rulesVars, gameVars>>

GuideInit ==
    /\ guide = GuideStart
    /\ FormulasIdle
    /\ RiskIdle
    /\ GameInit
    /\ AttachIdle
    /\ RulesIdle

GuideNext ==
    \/ ReadDosageForm
    \/ ReadManufacturingMethod
    \/ ReadDrugSolubility
    \/ ReadDrugStability
    \/ WriteRecommendationsHeader
    \/ WriteRecommendations
    \/ WriteConsiderations

SpecGuide == GuideInit /\ [][GuideNext]_vars

-----------------------------------------------------------------------------
(***************************************************************************)
(* pages/3_Particle_Size_Distribution.py: the dissolution profile of a     *)
(* population of particles.                                                *)
(***************************************************************************)
MaxSize == 20
MaxParticles == 3

(* np.pi, as the fraction 355/113.                                         *)
NpPi == Frac(355, 113)

RECURSIVE NpSum(_)
NpSum(xs) == IF xs = <<>> THEN FromInt(0) ELSE FAdd(xs[1], NpSum(Tail(xs)))

(* Lines 32-55.  sizes and time_points are arrays; every size is positive. *)
calculate_dissolution_profile(sizes, time_points) ==
    LET D == Frac(1, 1000000)
        Cs == FromInt(1)
        h == Frac(1, 1000)
        surface_areas == [p \in DOMAIN sizes |->
            FMul(FMul(FromInt(4), NpPi),
                 FMul(FDiv(sizes[p], FromInt(2)), FDiv(sizes[p], FromInt(2))))]
        dissolution_rates == [p \in DOMAIN sizes |->
            FDiv(FMul(FMul(D, surface_areas[p]), Cs), FMul(h, sizes[p]))]
        total_amount == Len(sizes)
        dissolved(t) == [p \in DOMAIN sizes |->
            FMin(FMul(dissolution_rates[p], t), FromInt(1))]
    IN [k \in DOMAIN time_points |->
          FMul(FDiv(NpSum(dissolved(time_points[k])), FromInt(total_amount)),
               FromInt(100))]

(* Line 154: the three times of the dissolution metrics, in minutes.       *)
MetricTimes == <<FromInt(15), FromInt(30), FromInt(45)>>

(* A population of n particles of one size (micrometres).                  *)
Population(size, n) == [p \in 1..n |-> FromInt(size)]

ParticleInputs == [size : 1..MaxSize, n : 1..MaxParticles]

DissolutionRun ==
    /\ call \in ParticleInputs
    /\ ret = NoneVal
    /\ ret' = calculate_dissolution_profile(Population(call.size, call.n),
                                            MetricTimes)
    /\ UNCHANGED <<call, guide, risk, attachVars, rulesVars, gameVars>>

ParticleInit ==
    /\ call \in ParticleInputs
    /\ ret = NoneVal
    /\ GuideIdle
    /\ RiskIdle
    /\ GameInit
    /\ AttachIdle
    /\ RulesIdle

ParticleNext == DissolutionRun

SpecParticle == ParticleInit /\ [][ParticleNext]_vars

-----------------------------------------------------------------------------
(***************************************************************************)
(* pages/1_Dissoultion_Profile_Simulator.py: the session of the page, one  *)
(* script run (render) per step.  call holds the widget values the last    *)
(* run read, ret what it put on the page.  The time points are counted in  *)
(* units of ln 2 hours, as on the pharmacokinetics page.                   *)
(***************************************************************************)
MaxK == 3

(* Slider positions: half-life 0.1..10.0 by 0.1 (in tenths), k 0.01..0.5   *)
(* by 0.01 (the positions 0.1, 0.2, ... in tenths), amount 10..200 by 10,  *)
(* volume 100..1000 by 50.                                                 *)
HalfLifeTenths == {1, 20, 100}
KTenths == 1..MaxK
AmountValues == {10, 100, 200}
MediumVolumes == {100, 500, 1000}

(* Lines 17-55, 150, 190: what the four sliders and two checkboxes return. *)
SimulatorWidgets ==
    [half_life : HalfLifeTenths, k : KTenths, initial_conc : AmountValues,
     volume : MediumVolumes, log_scale : BOOLEAN, show_table : BOOLEAN]

(* The value= arguments of the widgets: what the first run reads.          *)
SimulatorDefaults ==
    [half_life |-> 20, k |-> 1, initial_conc |-> 100, volume |-> 500,
     log_scale |-> FALSE, show_table |-> FALSE]

(* np.log(2), np.log(0.5) and np.log(0.1), to four decimals.               *)
NpLog2 == Frac(6931, 10000)
NpLogHalf == Frac(0 - 6931, 10000)
NpLogTenth == Frac(0 - 23026, 10000)

(* f"{x:.2f}" for x >= 0: the number of hundredths, ties to even.          *)
Format2f(x) ==
    LET q == (100 * x.n) \div x.d
        r == (100 * x.n) % x.d
    IN IF 2 * r > x.d THEN q + 1
       ELSE IF 2 * r = x.d THEN q + (q % 2)
       ELSE q

(* max(time) of line 66: the last point (the array is increasing).         *)
MaxOf(time) == time[Len(time)]

(* Lines 58-63: initial_conc * (1 - np.exp(-k * time)).                    *)
FirstOrderRelease(initial_conc, k, time) ==
    [i \in DOMAIN time |->
        FMul(initial_conc, FSub(FromInt(1), NpExp(FNeg(FMul(k, time[i])))))]

(* Lines 9-204, main for the widget values w: the traces of the chart, the *)
(* two annotations, the three metrics and the data table.  The k of line   *)
(* 27 is rebound by the slider of line 30 before any use.                  *)
(* The curves and the table of line 191 are evaluated at the time points  *)
(* where np.exp is exact.                                                  *)
main(w) ==
    LET half_life == Frac(w.half_life, 10)
        k_27 == PyDiv(NpLog2, half_life)
        k == Frac(w.k, 10)
        initial_conc == FromInt(w.initial_conc)
        volume == FromInt(w.volume)
        time == TimePoints
        concentration == FirstOrderRelease(initial_conc, k, time)
        percent_release ==
            [i \in DOMAIN time |->
                FMul(FDiv(concentration[i], initial_conc), FromInt(100))]
        zero_order_release ==
            [i \in DOMAIN time |->
                FMul(FDiv(initial_conc, MaxOf(time)), time[i])]
        t_50 == FDiv(FNeg(NpLogHalf), k)
        t_90 == FDiv(FNeg(NpLogTenth), k)
        initial_rate == FMul(k, initial_conc)
        data_conc == FirstOrderRelease(initial_conc, k, time)
    IN [concentration |-> concentration,
        zero_order_release |-> zero_order_release,
        percent_release |-> percent_release,
        maximum |-> initial_conc,
        t_50 |-> t_50,
        t_90 |-> t_90,
        yaxis |-> IF w.log_scale THEN "log" ELSE "linear",
        metrics |-> [T50 |-> Format2f(t_50), T90 |-> Format2f(t_90),
                     InitialRate |-> Format2f(initial_rate)],
        data_table |->
            IF w.show_table
            THEN [released |-> data_conc,
                  percent |-> [i \in DOMAIN time |->
                      FMul(FDiv(data_conc[i], initial_conc), FromInt(100))],
                  conc_mL |-> [i \in DOMAIN time |->
                      FDiv(data_conc[i], volume)]]
            ELSE NoneVal]

(* One run of the page: the first with the widgets at their defaults, a    *)
(* later one after the user has moved any of them.                         *)
SimulatorRender ==
    /\ \E w \in SimulatorWidgets :
        /\ call = NoneVal => w = SimulatorDefaults
        /\ call' = w
        /\ ret' = main(w)
    /\ UNCHANGED <<guide, risk, attachVars, rulesVars, gameVars>>

SimulatorInit ==
    /\ FormulasIdle
    /\ GuideIdle
    /\ RiskIdle
    /\ GameInit
    /\ AttachIdle
    /\ RulesIdle

SimulatorNext == SimulatorRender

SpecSimulator == SimulatorInit /\ [][SimulatorNext]_vars

-----------------------------------------------------------------------------
(***************************************************************************)
(* pages/8_Drug_Drug_Interactions.py, Risk Assessment: one run of the      *)
(* topic's block, statement by statement.  risk holds the position, the    *)
(* locals (NoneVal while unassigned) and what the run wrote on the page.   *)
(***************************************************************************)
RiskStart ==
    [pc |-> "form",
     drug1_narrow |-> NoneVal,
     drug1_critical |-> NoneVal,
     drug2_inhibitor |-> NoneVal,
     alternative_available |-> NoneVal,
     risk_score |-> NoneVal,
     risk_level |-> NoneVal,
     risk_color |-> NoneVal,
     written |-> <<>>]

RiskAt(p) == risk # NoneVal /\ risk.pc = p

(* Lines 308-314: the four checkboxes.                                     *)
ReadRiskForm ==
    /\ RiskAt("form")
    /\ \E narrow \in BOOLEAN, critical \in BOOLEAN, inhibitor \in BOOLEAN,
          alternative \in BOOLEAN :
        risk' = [risk EXCEPT !.drug1_narrow = narrow,
                             !.drug1_critical = critical,
                             !.drug2_inhibitor = inhibitor,
                             !.alternative_available = alternative,
                             !.pc = "score"]
    /\ UNCHANGED <<call, ret, guide, attachVars, rulesVars, gameVars>>

(* Line 317: risk_score = 0.                                               *)
StartRiskScore ==
    /\ RiskAt("score")
    /\ risk' = [risk EXCEPT !.risk_score = 0, !.pc = "narrow"]
    /\ UNCHANGED <<call, ret, guide, attachVars, rulesVars, gameVars>>

(* Line 318: if drug1_narrow: risk_score += 3.                             *)
AddNarrow ==
    /\ RiskAt("narrow")
    /\ risk' = [risk EXCEPT
                   !.risk_score = IF risk.drug1_narrow THEN @ + 3 ELSE @,
                   !.pc = "critical"]
    /\ UNCHANGED <<call, ret, guide, attachVars, rulesVars, gameVars>>

(* Line 319: if drug1_critical: risk_score += 2.                           *)
AddCritical ==
    /\ RiskAt("critical")
    /\ risk' = [risk EXCEPT
                   !.risk_score = IF risk.drug1_critical THEN @ + 2 ELSE @,
                   !.pc = "inhibitor"]
    /\ UNCHANGED <<call, ret, guide, attachVars, rulesVars, gameVars>>

(* Line 320: if drug2_inhibitor: risk_score += 2.                          *)
AddInhibitor ==
    /\ RiskAt("inhibitor")
    /\ risk' = [risk EXCEPT
                   !.risk_score = IF risk.drug2_inhibitor THEN @ + 2 ELSE @,
                   !.pc = "alternative"]
    /\ UNCHANGED <<call, ret, guide, attachVars, rulesVars, gameVars>>

(* Line 321: if not alternative_available: risk_score += 1.                *)
AddNoAlternative ==
    /\ RiskAt("alternative")
    /\ risk' = [risk EXCEPT
                   !.risk_score = IF ~risk.alternative_available THEN @ + 1 ELSE @,
                   !.pc = "grade"]
    /\ UNCHANGED <<call, ret, guide, attachVars, rulesVars, gameVars>>

(* Variant: the Low band ends below 2.                                     *)
RiskLevel_Strict(risk_score) ==
    IF risk_score < 2 THEN "Low" ELSE IF risk_score <= 5 THEN "Moderate" ELSE "High"

(* Line 324.                                                               *)
RiskLevel(risk_score) ==
    IF risk_score <= 2 THEN "Low" ELSE IF risk_score <= 5 THEN "Moderate" ELSE "High"

(* Line 325.                                                               *)
RiskColor(risk_score) ==
    IF risk_score <= 2 THEN "green" ELSE IF risk_score <= 5 THEN "orange" ELSE "red"

(* Lines 324-325.                                                          *)
GradeRisk ==
    /\ RiskAt("grade")
    /\ risk' = [risk EXCEPT !.risk_level = RiskLevel(risk.risk_score),
                            !.risk_color = RiskColor(risk.risk_score),
                            !.pc = "results"]
    /\ UNCHANGED <<call, ret, guide, attachVars, rulesVars, gameVars>>

(* Lines 327-332: "Risk Score: **{risk_score}/8**" and                     *)
(* "Risk Level: **:{risk_color}[{risk_level}]**".                          *)
WriteRiskResults ==
    /\ RiskAt("results")
    /\ risk' = [risk EXCEPT
                   !.written = Append(@, [kind |-> "markdown",
                                          score |-> risk.risk_score,
                                          outOf |-> 8,
                                          color |-> risk.risk_color,
                                          level |-> risk.risk_level]),
                   !.pc = "recommendations"]
    /\ UNCHANGED <<call, ret, guide, attachVars, rulesVars, gameVars>>

(* Lines 336-350: the block of the if / elif / else, by its first line.    *)
RiskRecommendation(risk_score) ==
    IF risk_score <= 2
    THEN [kind |-> "success", text |-> "Monitor routine clinical parameters"]
    ELSE IF risk_score <= 5
    THEN [kind |-> "warning", text |-> "Consider alternative therapy"]
    ELSE [kind |-> "error", text |-> "Avoid combination if possible"]

(* Lines 335-350.                                                          *)
WriteRiskRecommendations ==
    /\ RiskAt("recommendations")
    /\ risk' = [risk EXCEPT
                   !.written = @ \o <<[kind |-> "heading", text |-> "Recommendations"],
                                      RiskRecommendation(risk.risk_score)>>,
                   !.pc = "done"]
    /\ UNCHANGED <<call, ret, guide, attachVars, rulesVars, gameVars>>

RiskInit ==
    /\ risk = RiskStart
    /\ FormulasIdle
    /\ GuideIdle
    /\ GameInit
    /\ AttachIdle
    /\ RulesIdle

RiskNext ==
    \/ ReadRiskForm
    \/ StartRiskScore
    \/ AddNarrow
    \/ AddCritical
    \/ AddInhibitor
    \/ AddNoAlternative
    \/ GradeRisk
    \/ WriteRiskResults
    \/ WriteRiskRecommendations

SpecRisk == RiskInit /\ [][RiskNext]_vars

-----------------------------------------------------------------------------
(***************************************************************************)
(* Properties of attach_functional_group (SpecAttach).                     *)
(*                                                                         *)
(* What the call was given, read off the call's inputs alone: the          *)
(* hydrogen-completed base, the parsed fragment, the hydrogen that is      *)
(* substituted and its neighbour, the fragment's dummy and the atom bonded *)
(* to it, and where a base or fragment atom sits in the result.            *)
(***************************************************************************)
InCall == frame # NoneVal

GivenBaseH == AddHs(mol_before)

GivenFg == MolFromSmiles(frame.fg_smiles)

OneDummy == GivenFg # NoneVal /\ Cardinality(Dummies(GivenFg)) = 1

GivenDummy == CHOOSE d \in Dummies(GivenFg) : TRUE

LostH ==
    CHOOSE h \in HydrogensWithNeighbor(GivenBaseH) :
        \A k \in HydrogensWithNeighbor(GivenBaseH) : h <= k

HeavyOfLostH == CHOOSE j \in NeighborIdxs(GivenBaseH, LostH) : TRUE

AttachAtoms == NeighborIdxs(GivenFg, GivenDummy)

After(i, removed) == IF i > removed THEN i - 1 ELSE i

BaseImage(i) == After(i, LostH)

FragImage(j) == (Len(GivenBaseH.atoms) - 1) + After(j, GivenDummy)

HydrogenCount(m) == Cardinality({i \in Idxs(m) : GetAtomWithIdx(m, i).num = 1})

(* C1: when the call succeeds on a fragment with one dummy atom, the       *)
(* returned molecule has a single bond between the base atom that lost its *)
(* hydrogen and the fragment atom that was bonded to the dummy.            *)
C1_BondJoinsBaseAndFragment ==
    (InCall /\ Succeeded(frame) /\ OneDummy) =>
        \A j \in AttachAtoms :
            \E bd \in Returned(frame).bonds :
                /\ bd.order = "SINGLE"
                /\ {bd.a, bd.b} = {BaseImage(HeavyOfLostH), FragImage(j)}

(* C2: when the fragment text does not parse, or the hydrogen-completed    *)
(* base has no hydrogen with a neighbour, the call makes no graph edit,    *)
(* does not raise, and ends returning None.                                *)
NothingToAttach ==
    \/ GivenFg = NoneVal
    \/ HydrogensWithNeighbor(GivenBaseH) = {}

C2_NoneWithoutEdits ==
    (InCall /\ NothingToAttach) =>
        /\ frame.edits = 0
        /\ ~Raised(frame)
        /\ Finished(frame) => ReturnedNone(frame)

C2_Witness ==
    /\ InCall
    /\ GivenFg # NoneVal
    /\ HydrogensWithNeighbor(GivenBaseH) = {}
    /\ ReturnedNone(frame)

(* C5: at every point of the call, and in each of its outcomes, the object *)
(* passed as mol holds the atoms and bonds it held when the call began.    *)
C5_ArgumentUntouched == InCall => frame.heap["mol"] = mol_before

C5_Witness ==
    /\ InCall
    /\ Succeeded(frame)
    /\ frame.edits = 3
    /\ Returned(frame) # mol_before

(* C6: on success with a one-dummy fragment the result has no dummy atom,  *)
(* one hydrogen atom fewer than the hydrogen-completed base, and every     *)
(* other atom and every bond of base and fragment that did not touch the   *)
(* removed hydrogen or the removed dummy.                                  *)
C6_ResultKeepsBaseAndFragment ==
    (InCall /\ Succeeded(frame) /\ OneDummy) =>
        LET R == Returned(frame)
        IN /\ Dummies(R) = {}
           /\ HydrogenCount(R) = HydrogenCount(GivenBaseH) - 1
           /\ GetNumAtoms(R) = (GetNumAtoms(GivenBaseH) - 1) + (GetNumAtoms(GivenFg) - 1)
           /\ \A i \in Idxs(GivenBaseH) \ {LostH} :
                 GetAtomWithIdx(R, BaseImage(i)) = GetAtomWithIdx(GivenBaseH, i)
           /\ \A j \in Idxs(GivenFg) \ {GivenDummy} :
                 GetAtomWithIdx(R, FragImage(j)) = GetAtomWithIdx(GivenFg, j)
           /\ \A bd \in GivenBaseH.bonds :
                 (bd.a # LostH /\ bd.b # LostH) =>
                     \E rb \in R.bonds :
                         /\ rb.order = bd.order
                         /\ {rb.a, rb.b} = {BaseImage(bd.a), BaseImage(bd.b)}
           /\ \A bd \in GivenFg.bonds :
                 (bd.a # GivenDummy /\ bd.b # GivenDummy) =>
                     \E rb \in R.bonds :
                         /\ rb.order = bd.order
                         /\ {rb.a, rb.b} = {FragImage(bd.a), FragImage(bd.b)}

C6_Witness ==
    /\ InCall
    /\ Succeeded(frame)
    /\ OneDummy
    /\ frame.fg_smiles = functional_groups["Carboxyl"]
    /\ frame.hydrogen_idx = 0

(* The place an atom of m has once the atom at index gone is deleted: the  *)
(* number of atoms in front of it that stay.                               *)
KeptBefore(m, i, gone) == Cardinality({j \in Idxs(m) : j < i /\ j # gone})

HydrogenRemoved == InCall /\ frame.heap["mol_no_H"] # NoneVal

Combined == InCall /\ frame.heap["combo"] # NoneVal

(* C22: once the hydrogen is removed, heavy_idx is the place in mol_no_H   *)
(* of the atom that was the hydrogen's neighbour in mol_h (same atom, same *)
(* remaining neighbours); once the molecules are combined and the fragment *)
(* has a dummy atom, new_dummy_idx = n_atoms_main + dummy_idx is the place *)
(* in combo of the fragment's first dummy atom (a dummy, behind all atoms  *)
(* of the main molecule, with the fragment neighbours of that dummy).      *)
C22_IndicesFollowTheirAtoms ==
    /\ HydrogenRemoved =>
        LET mol_h == frame.heap["mol_h"]
            mol_no_H == frame.heap["mol_no_H"]
            h == frame.hydrogen_idx
        IN \E j \in NeighborIdxs(mol_h, h) :
              /\ frame.heavy_idx = KeptBefore(mol_h, j, h)
              /\ frame.heavy_idx \in Idxs(mol_no_H)
              /\ GetAtomWithIdx(mol_no_H, frame.heavy_idx) = GetAtomWithIdx(mol_h, j)
              /\ NeighborIdxs(mol_no_H, frame.heavy_idx) =
                    {KeptBefore(mol_h, n, h) : n \in NeighborIdxs(mol_h, j) \ {h}}
    /\ (Combined /\ Dummies(frame.heap["fg"]) # {}) =>
        LET fg == frame.heap["fg"]
            combo == frame.heap["combo"]
            n_main == GetNumAtoms(frame.heap["mol_no_H"])
            d == frame.new_dummy_idx - n_main
        IN /\ frame.new_dummy_idx \in Idxs(combo)
           /\ frame.n_atoms_main = n_main
           /\ d \in Dummies(fg)
           /\ \A e \in Dummies(fg) : d <= e
           /\ GetAtomWithIdx(combo, frame.new_dummy_idx).num = 0
           /\ GetAtomWithIdx(combo, frame.new_dummy_idx) = GetAtomWithIdx(fg, d)
           /\ NeighborIdxs(combo, frame.new_dummy_idx) =
                 {n_main + n : n \in NeighborIdxs(fg, d)}

(* The hydrogen stood in front of its neighbour ("[2H]C") and the dummy is *)
(* not the fragment's first atom ("C[*:1]").                               *)
C22_Witness ==
    /\ Combined
    /\ mol_before = MolFromSmiles(DeuteroMethane)
    /\ frame.fg_smiles = MethylDummyLast
    /\ frame.hydrogen_idx = 0
    /\ frame.heavy_idx = 0
    /\ frame.dummy_idx = 1
    /\ frame.new_dummy_idx = 5

-----------------------------------------------------------------------------
(***************************************************************************)
(* Properties of check_lipinski_compliance (SpecRules).                    *)
(***************************************************************************)
Checked == verdict # NoneVal /\ verdict # ReturnedFalse

ViolatedRules ==
    Cardinality({k \in {"mw", "logp", "hbd", "hba"} : ~verdict.rules[k]})

C8_CompliantIffAtMostOneViolation ==
    Checked => (verdict.compliance <=> ViolatedRules <= 1)

C8_Witness ==
    /\ Checked
    /\ ViolatedRules = 1
    /\ verdict.compliance

-----------------------------------------------------------------------------
(***************************************************************************)
(* Properties of the game session (Spec).                                  *)
(***************************************************************************)

(* Whether attaching the selected group to the current molecule fails:     *)
(* the molecule does not parse, or the call does not return a molecule.    *)
AttachFails(cm, group) ==
    \/ MolFromSmiles(cm) = NoneVal
    \/ ~Succeeded(attach_functional_group(MolFromSmiles(cm), functional_groups[group]))

DrugLike(cm) ==
    LET p == calculate_lipinski_parameters(MolFromSmiles(cm))
    IN p # NoneVal /\ check_lipinski_compliance(p).compliance

(* C9: outside the tutorial the score rises by exactly 1 when a run finds  *)
(* the current molecule compliant with submitted not set; it rises in no   *)
(* other way, so never for a non-compliant molecule; and once submitted is *)
(* set, steps that keep the mode and the molecule keep the score and the   *)
(* flag.                                                                   *)
C9_ScoresOncePerMolecule ==
    /\ [][(pc = "params" /\ pc' = "editor" /\ game_mode # "tutorial"
             /\ submitted # "true" /\ DrugLike(current_molecule)) =>
            (score' = score + 1 /\ submitted' = "true")]_vars
    /\ [][score' > score =>
            /\ score' = score + 1
            /\ pc = "params"
            /\ game_mode # "tutorial"
            /\ submitted # "true"
            /\ DrugLike(current_molecule)]_vars
    /\ [][(submitted = "true" /\ current_molecule' = current_molecule
             /\ game_mode' = game_mode) =>
            (score' = score /\ submitted' = "true")]_vars

C9_Witness ==
    /\ game_mode = "design challenge"
    /\ score = 2
    /\ submitted = "true"
    /\ pc = "editor"
    /\ shown.compliance = "yes"
    /\ shown.info = ""
    /\ current_molecule = Methanol

(* C10: in tutorial mode the score is 0.                                   *)
C10_TutorialScoreZero == game_mode = "tutorial" => score = 0

C10_Witness ==
    /\ game_mode = "tutorial"
    /\ pc = "editor"
    /\ shown.compliance = "yes"
    /\ submitted = "false"
    /\ now > 0

(* What a run of the script that reads the clock at time now sees of the   *)
(* time trial: the seconds since start_time.                               *)
Elapsed == now - start_time

TimeTrialOver ==
    game_mode = "time trial" /\ start_time # NoIdx /\ Elapsed >= TIME_LIMIT

(* C11: in time trial mode, once 60 seconds or more have passed since      *)
(* start_time, every step that keeps the mode keeps score,                 *)
(* current_molecule and submitted (and start_time, so the time stays up),  *)
(* and a run begun then stops at the timer: it reaches neither the scoring *)
(* step nor the editor.                                                    *)
C11_TimeUpFreezesGame ==
    /\ [][(TimeTrialOver /\ game_mode' = "time trial") =>
            /\ score' = score
            /\ current_molecule' = current_molecule
            /\ submitted' = submitted
            /\ start_time' = start_time
            /\ now' >= now
            /\ pc' = "idle"]_vars
    /\ [][(TimeTrialOver /\ game_mode' = "time trial" /\ now' = now) =>
            shown'.stopped]_vars

C11_Witness ==
    /\ TimeTrialOver
    /\ Elapsed = TIME_LIMIT
    /\ shown.stopped
    /\ pc = "idle"
    /\ score = 1
    /\ submitted = "false"
    /\ current_molecule = Methanol

(* C12: a run in which the selected mode differs from the stored game_mode *)
(* scores the molecule "CC" and ends with the score 0 in the sidebar.      *)
C12_ModeSwitchShowsZero ==
    [][(pc = "flush" /\ pc' = "idle" /\ ev.switched) =>
          /\ shown'.molecule = Ethane
          /\ shown'.score = 0]_vars

(* The parameters and the verdict the page would write for the molecule    *)
(* written in cm.                                                          *)
ParamsOf(cm) == calculate_lipinski_parameters(MolFromSmiles(cm))

VerdictOf(cm) == IF DrugLike(cm) THEN "yes" ELSE "no"

(* C13: when a run has ended, the parameters and the verdict it wrote are  *)
(* those of current_molecule as the run left it.                           *)
C13_ShownParamsAreCurrent ==
    (pc = "idle" /\ shown.params # NoneVal) =>
        /\ shown.params = ParamsOf(current_molecule)
        /\ shown.compliance = VerdictOf(current_molecule)

-----------------------------------------------------------------------------
(***************************************************************************)
(* Properties of the formula pages.                                        *)
(***************************************************************************)
PKRan == call \in OneCompartmentSliders /\ ret # NoneVal

(* C14: the IV bolus curve starts at D/V exactly (10 for dose 500, volume  *)
(* 50, k 0.5) and is strictly decreasing along the time points.            *)
C14_BolusStartsAtDoseOverVolume ==
    PKRan =>
        /\ TimePoints[1] = FromInt(0)
        /\ ret.c_iv[1] = FDiv(FromInt(call.dose), FromInt(call.volume))
        /\ (call.dose = 500 /\ call.volume = 50 /\ call.k_elim = 5) =>
              ret.c_iv[1] = FromInt(10)
        /\ \A i, j \in DOMAIN ret.c_iv :
              i < j => FLess(ret.c_iv[j], ret.c_iv[i])

C14_Witness ==
    /\ PKRan
    /\ call.dose = 500 /\ call.volume = 50 /\ call.k_elim = 5
    /\ ret.c_iv[1] = FromInt(10)
    /\ ret.c_iv[2] = Frac(10, 32)
    /\ Len(ret.c_iv) > 2

(* C18: whenever the two rate sliders hold equal values, the oral formula  *)
(* is evaluated as written and divides by zero: the evaluation is neither  *)
(* skipped nor replaced by another formula.                                *)
C18_EqualRatesDivideByZero ==
    /\ \E s \in OneCompartmentSliders : s.ka = s.k_elim
    /\ PKRan =>
          (call.ka = call.k_elim <=> ret.c_oral = ZeroDivisionError)

C18_Witness ==
    /\ PKRan
    /\ call.ka = call.k_elim
    /\ ret.c_oral = ZeroDivisionError
    /\ ret.c_iv[1] = FromInt(10)
    /\ ~ret.chart

IonRan == call \in CalculatorWidgets /\ ret # NoneVal

(* C15: whenever pH = pKa, calculate_ionization returns exactly 1/2, for   *)
(* every pKa and for an acid as for a base.                                *)
C15_HalfIonizedAtPKa == (IonRan /\ call.pH = call.pKa) => ret = Frac(1, 2)

C15_Witness ==
    /\ IonRan
    /\ call.pH = call.pKa
    /\ call.pKa = MaxPhStep
    /\ ~call.is_acid
    /\ ret = Frac(1, 2)

BufRan == call \in BufferPoints /\ ret # NoneVal

(* C16: for a fixed concentration and Ka, the buffer capacity at pH = pKa  *)
(* (where [H+] = Ka) is strictly above the capacity at every other pH, and *)
(* a step further away from the pKa, on either side, lowers it strictly.   *)
C16_BufferCapacityPeaksAtPKa ==
    BufRan =>
        /\ call.ph # call.pka =>
              FLess(ret, BufferCapacityAt(call.pka, call.buffer_conc, call.pka))
        /\ call.ph >= call.pka =>
              FLess(BufferCapacityAt(call.pka, call.buffer_conc, call.ph + 1), ret)
        /\ call.ph <= call.pka =>
              FLess(BufferCapacityAt(call.pka, call.buffer_conc, call.ph - 1), ret)

C16_Witness ==
    /\ BufRan
    /\ call.ph = call.pka
    /\ call.buffer_conc = 10
    /\ ret = Frac(2303, 40000)

HiguchiRan == call \in HiguchiInputs /\ ret # NoneVal

(* C17: for positive D, Cs, A and h, the Higuchi release is non-negative   *)
(* at every time point t >= 0 and non-decreasing along the time points.    *)
C17_HiguchiNonNegativeMonotone ==
    HiguchiRan =>
        /\ \A i \in DOMAIN ret : FLeq(FromInt(0), ret[i])
        /\ \A i, j \in DOMAIN ret : i <= j => FLeq(ret[i], ret[j])

C17_Witness ==
    /\ HiguchiRan
    /\ call = [D |-> Frac(1, 1000000), Cs |-> FromInt(1), A |-> FromInt(1),
               h |-> Frac(1, 1000)]
    /\ ret[1] = FromInt(0)
    /\ ret[3] = Frac(63, 1000)
    /\ FLess(ret[3], ret[MaxHours + 1])

-----------------------------------------------------------------------------
(***************************************************************************)
(* Properties of the Selection Guide (SpecGuide).                          *)
(***************************************************************************)
RecommendedBlocks ==
    {k \in DOMAIN guide.written : guide.written[k].text = "Recommended Excipients"}

(* C19: a finished run of the Selection Guide has written exactly one      *)
(* 'Recommended Excipients' block, whatever the four selections are.       *)
C19_OneRecommendationPerSelection ==
    GuideAt("done") => Cardinality(RecommendedBlocks) = 1

-----------------------------------------------------------------------------
(***************************************************************************)
(* Properties of the dissolution profile (SpecParticle).                   *)
(***************************************************************************)
DissolutionRan == call \in ParticleInputs /\ ret # NoneVal

(* C20: smaller particles dissolve at least as fast: for populations of    *)
(* one size each, the percent dissolved of every smaller size is, at every *)
(* time point, at least the percent dissolved of the size evaluated.       *)
C20_SmallerParticlesDissolveFaster ==
    DissolutionRan =>
        \A a \in 1..MaxSize :
            a < call.size =>
                \A k \in DOMAIN ret :
                    FLeq(ret[k],
                         calculate_dissolution_profile(
                             Population(a, call.n), MetricTimes)[k])

-----------------------------------------------------------------------------
(***************************************************************************)
(* The dissolution simulator (SpecSimulator).                              *)
(***************************************************************************)
SimulatorRan == call \in SimulatorWidgets /\ ret # NoneVal

(* The step is a run of the page that follows another run and differs from *)
(* it in the half-life slider only.                                        *)
OnlyHalfLifeMoved ==
    /\ call \in SimulatorWidgets
    /\ call' \in SimulatorWidgets
    /\ call'.half_life # call.half_life
    /\ call' = [call EXCEPT !.half_life = call'.half_life]

(* C21: the kinetics follow the half-life slider: every run shows a T50    *)
(* equal to the half-life read (k = ln 2 / half-life), and a run that      *)
(* differs from the one before it only in the half-life slider puts        *)
(* different outputs on the page.                                          *)
C21_HalfLifeSetsKinetics ==
    [][/\ call' \in SimulatorWidgets =>
            ret'.metrics.T50 = Format2f(Frac(call'.half_life, 10))
       /\ OnlyHalfLifeMoved => ret' # ret]_vars

-----------------------------------------------------------------------------
(***************************************************************************)
(* The Risk Assessment (SpecRisk).                                         *)
(***************************************************************************)
RiskDone == RiskAt("done")

Points(flag, n) == IF flag THEN n ELSE 0

ResultsWritten == risk.written[1]

BlockWritten == risk.written[Len(risk.written)]

(* C23: a finished run shows the score 3*narrow + 2*critical + 2*inhibitor *)
(* + 1 when no alternative is available, which lies in 0..8; the level     *)
(* shown is Low iff score <= 2, Moderate iff 3 <= score <= 5, High iff     *)
(* score >= 6; and the block under Recommendations is the success block    *)
(* iff the level is Low, the warning iff Moderate, the error iff High.     *)
C23_RiskLevelMatchesScore ==
    RiskDone =>
        LET expected == Points(risk.drug1_narrow, 3) + Points(risk.drug1_critical, 2)
                        + Points(risk.drug2_inhibitor, 2)
                        + Points(~risk.alternative_available, 1)
            results == ResultsWritten
        IN /\ Len(risk.written) = 3
           /\ results.kind = "markdown"
           /\ results.score = expected
           /\ results.score \in 0..8
           /\ results.level \in {"Low", "Moderate", "High"}
           /\ results.level = "Low" <=> results.score <= 2
           /\ results.level = "Moderate" <=> (3 <= results.score /\ results.score <= 5)
           /\ results.level = "High" <=> results.score >= 6
           /\ BlockWritten.kind \in {"success", "warning", "error"}
           /\ BlockWritten.kind = "success" <=> results.level = "Low"
           /\ BlockWritten.kind = "warning" <=> results.level = "Moderate"
           /\ BlockWritten.kind = "error" <=> results.level = "High"

(* Critical drug alone, an alternative available: score 2, the upper end   *)
(* of Low.                                                                 *)
C23_Witness ==
    /\ RiskDone
    /\ ~risk.drug1_narrow
    /\ risk.drug1_critical
    /\ ~risk.drug2_inhibitor
    /\ risk.alternative_available
    /\ ResultsWritten.score = 2
    /\ ResultsWritten.level = "Low"
    /\ BlockWritten.kind = "success"

=============================================================================
